---- MODULE Spec2Model ----
(***************************************************************************)
(* State-machine model of the Quentli browser SDK (src/src/Quentli.ts):    *)
(* one Quentli instance, the browser objects it allocates (popup windows,  *)
(* iframe elements, the window "message" listener, the popup-close         *)
(* interval, MessageChannels) and the events the browser delivers to it.   *)
(*                                                                         *)
(* Every handler of the source is an operator from a state record to a     *)
(* state record, so that handlers compose exactly as the code calls them   *)
(* (displayPopup = validate; cleanup; initSession; setupMessageListener;   *)
(* handlePopup).  An action of Next is one event reaction or one caller    *)
(* call, run to completion (the program is single threaded).               *)
(***************************************************************************)
EXTENDS Integers, Sequences, FiniteSets, TLC

(***************************************************************************)
(* Bounds of the model.                                                    *)
(***************************************************************************)
MaxSessions == 2   \* sessions that get as far as initSession
MaxChannels == 2   \* MessageChannels created over the run
MaxCalls    == 2   \* callback invocations recorded over the run
MaxTotal    == 4   \* sessions, channels and callback invocations together
MaxScreen   == 4   \* largest width and height of window.screen
MaxSize     == 5   \* largest requested popup width and height

(***************************************************************************)
(* Values.                                                                 *)
(***************************************************************************)
\* `null` for the fields that hold a handle (channel, window, frame, handler, timer)
Null == 0
\* `null` for authSession and expectedOrigin (both are tuples when set)
NullTuple == <<>>
\* `null` for sessionType
NullType == "null"

\* options.url. `text` says what kind of string it is: an absolute URL (the only
\* kind `new URL()` accepts), a relative one, or the empty/absent one.
ValidUrls ==
  { [text |-> "absolute", scheme |-> "https", host |-> "pay.example.com", port |-> 443] }

InvalidUrls ==
  { [text |-> "relative", scheme |-> "", host |-> "", port |-> 0],
    [text |-> "empty", scheme |-> "", host |-> "", port |-> 0] }

\* The default port of a scheme, which URL.origin leaves out.
DefaultPort(scheme) == IF scheme = "https" THEN 443 ELSE 80

\* new URL(url).origin: scheme, host and port, the scheme's default port dropped.
UrlOrigin(url) ==
  << url.scheme, url.host, IF url.port = DefaultPort(url.scheme) THEN 0 ELSE url.port >>

\* event.origin of the messages the browser may deliver to the window.
Origins ==
  { <<"https", "pay.example.com", 0>>,      \* origin of the first URL
    <<"https", "pay.example.com", 8443>>,   \* differs in port only
    <<"http",  "pay.example.com", 0>>,      \* differs in scheme only
    <<"https", "evil.example.net", 0>> }    \* differs in host

\* options.session: accessToken and csrfToken.  The backend issues a fresh pair
\* for every session, so the pair of the n-th session is named after n; a missing
\* token is the empty tuple.
NoToken == <<>>

SessionFor(n) == << <<"accessToken", n>>, <<"csrfToken", n>> >>

InvalidSessions == { <<NoToken, <<"csrfToken", 0>> >>, << <<"accessToken", 0>>, NoToken>> }

SessionTypes == { "payment", "setup" }

\* event.data: type is "NONE" when the data has no type field.
MessageTypes == { "READY", "PAYMENT_COMPLETED", "PAYMENT_METHOD_ADDED", "PING", "NONE" }

Statuses == { "COMPLETE", "CANCELED", "PENDING" }

\* status is "NONE" when the data has no status field; a PAYMENT_METHOD_ADDED may
\* carry one like any other message (QuentliMessage.status is optional).
Messages ==
  { [type |-> t, status |-> "NONE"] : t \in MessageTypes \ {"PAYMENT_COMPLETED"} }
    \cup { [type |-> "PAYMENT_COMPLETED", status |-> st] : st \in Statuses }
    \cup { [type |-> "PAYMENT_METHOD_ADDED", status |-> "CANCELED"] }

\* What a caller-supplied callback does when it is invoked.
Behaviours == { "return", "throw", "cleanup", "destroy", "start" }

\* Where handleReady's try block can fail: nowhere, in `new MessageChannel()`,
\* or in targetWindow.postMessage.
ReadyFailures == { "none", "channel", "post" }

\* Children of the host element that the host page put there itself.
StaleChildren == { 101, 102 }

VARIABLES
  messageChannel,      \* Quentli.messageChannel: channel id or Null
  popupWindow,         \* Quentli.popupWindow: window id or Null
  iframeElement,       \* Quentli.iframeElement: frame id or Null
  messageHandler,      \* Quentli.messageHandler: id of the session whose closure it is, or Null
  popupCheckInterval,  \* Quentli.popupCheckInterval: id of the session whose timer it is, or Null
  authSession,         \* Quentli.authSession
  expectedOrigin,      \* Quentli.expectedOrigin
  isDestroyed,         \* Quentli.isDestroyed
  sessionType,         \* Quentli.sessionType
  windows,             \* browser: windows[w] = the session that opened popup w, its `closed` flag
  dom,                 \* browser: children of the host element (frame ids and stale children)
  listeners,           \* browser: sessions whose handler is registered for window "message"
  timers,              \* browser: sessions whose setInterval timer is running
  channels,            \* browser: channels[c] = owner session, port1 open, port2 transferred
  sent,                \* messages the instance posted
  calls,               \* callbacks invoked, in order: the session and the callback
  sessions,            \* number of sessions initSession accepted; the n-th has id n
  location,            \* window.location.href after a redirect, or NullTuple
  logger,              \* Quentli.logger: the `enabled` flag of the Logger (config.debug)
  console,             \* browser: the level of the last line written to the console, or ""
  screen,              \* browser: window.screen, its width and height
  requested,           \* the width and height calculatePopupPosition is called with
  position             \* the left and top calculatePopupPosition returned, or NullTuple

vars ==
  << messageChannel, popupWindow, iframeElement, messageHandler, popupCheckInterval,
     authSession, expectedOrigin, isDestroyed, sessionType, windows, dom,
     listeners, timers, channels, sent, calls, sessions, location, logger, console,
     screen, requested, position >>

\* The state as one record, the argument and the result of every handler.
St ==
  [ messageChannel |-> messageChannel, popupWindow |-> popupWindow,
    iframeElement |-> iframeElement, messageHandler |-> messageHandler,
    popupCheckInterval |-> popupCheckInterval, authSession |-> authSession,
    expectedOrigin |-> expectedOrigin, isDestroyed |-> isDestroyed,
    sessionType |-> sessionType, windows |-> windows, dom |-> dom,
    listeners |-> listeners, timers |-> timers, channels |-> channels, sent |-> sent,
    calls |-> calls, sessions |-> sessions, location |-> location,
    logger |-> logger, console |-> console ]

\* The next state is the record s.
Becomes(s) ==
  /\ messageChannel' = s.messageChannel
  /\ popupWindow' = s.popupWindow
  /\ iframeElement' = s.iframeElement
  /\ messageHandler' = s.messageHandler
  /\ popupCheckInterval' = s.popupCheckInterval
  /\ authSession' = s.authSession
  /\ expectedOrigin' = s.expectedOrigin
  /\ isDestroyed' = s.isDestroyed
  /\ sessionType' = s.sessionType
  /\ windows' = s.windows
  /\ dom' = s.dom
  /\ listeners' = s.listeners
  /\ timers' = s.timers
  /\ channels' = s.channels
  /\ sent' = s.sent
  /\ calls' = s.calls
  /\ sessions' = s.sessions
  /\ location' = s.location
  /\ logger' = s.logger
  /\ console' = s.console
  /\ UNCHANGED << screen, requested, position >>

InBounds(s) ==
  /\ s.sessions <= MaxSessions
  /\ Len(s.channels) <= MaxChannels
  /\ Len(s.calls) <= MaxCalls
  /\ s.sessions + Len(s.channels) + Len(s.calls) <= MaxTotal

(***************************************************************************)
(* Popup geometry (utils.ts).  A JavaScript number that is a multiple of   *)
(* one half is the pair of its floor and of 1 when the half is there, 0    *)
(* when not: x / 2 is exact on integers in this form.                      *)
(***************************************************************************)
\* x / 2 for an integer x
Half(x) == << x \div 2, x % 2 >>

\* Math.max(0, h)
MathMax0(h) == IF h[1] < 0 THEN << 0, 0 >> ELSE h

\* Mutant of calculatePopupPosition: the offsets are not clamped.
calculatePopupPositionUnclamped(width, height, scr) ==
  [ left |-> Half(scr.width - width), top |-> Half(scr.height - height) ]

\* lines 8-12
calculatePopupPosition(width, height, scr) ==
  [ left |-> MathMax0(Half(scr.width - width)),
    top  |-> MathMax0(Half(scr.height - height)) ]

(***************************************************************************)
(* Argument validation (utils.ts).  TRUE when the validator returns, FALSE *)
(* when it throws.                                                         *)
(***************************************************************************)
\* Mutant of validateUrl: only the absent or empty url is refused.
validateUrlNonEmpty(url) == url.text # "empty"

validateUrl(url) == url.text = "absolute"

validateSession(session) == session[1] # NoToken /\ session[2] # NoToken

validateTarget(target) == target

(***************************************************************************)
(* Logger (utils.ts): each method writes one line to the console when the  *)
(* logger is enabled and does nothing otherwise.                           *)
(***************************************************************************)
\* Mutant of loggerLog: an enabled logger also drops the origin it logged.
loggerLogDropsOrigin(s) ==
  IF s.logger THEN [s EXCEPT !.console = "log", !.expectedOrigin = NullTuple] ELSE s

\* Logger.log
loggerLog(s) == IF s.logger THEN [s EXCEPT !.console = "log"] ELSE s

\* Logger.warn
loggerWarn(s) == IF s.logger THEN [s EXCEPT !.console = "warn"] ELSE s

\* Logger.error
loggerError(s) == IF s.logger THEN [s EXCEPT !.console = "error"] ELSE s

(***************************************************************************)
(* Quentli.cleanup and Quentli.destroy.                                    *)
(***************************************************************************)
\* Mutant of cleanupPopup: an open popup is closed and its handle kept; the
\* handle of a closed popup is reset.
cleanupPopupTwoStep(s) ==
  IF s.popupWindow = Null THEN s
  ELSE IF s.windows[s.popupWindow].closed
       THEN [s EXCEPT !.popupWindow = Null]
       ELSE [s EXCEPT !.windows[s.popupWindow].closed = TRUE]

\* lines 635-639: the popup is closed and the field reset only when the handle
\* is set and the window is not closed yet.
cleanupPopup(s) ==
  IF s.popupWindow # Null /\ ~s.windows[s.popupWindow].closed
  THEN [s EXCEPT !.windows[s.popupWindow].closed = TRUE, !.popupWindow = Null]
  ELSE s

\* lines 641-645
cleanupIframe(s) ==
  IF s.iframeElement # Null
  THEN [s EXCEPT !.dom = @ \ {s.iframeElement}, !.iframeElement = Null]
  ELSE s

\* lines 647-651
cleanupInterval(s) ==
  IF s.popupCheckInterval # Null
  THEN [s EXCEPT !.timers = @ \ {s.popupCheckInterval}, !.popupCheckInterval = Null]
  ELSE s

\* lines 653-657: port1 of the channel the field names is closed.
cleanupChannel(s) ==
  IF s.messageChannel # Null
  THEN [s EXCEPT !.channels[s.messageChannel].open = FALSE, !.messageChannel = Null]
  ELSE s

\* Mutant of cleanupListener: the field is reset and the handler stays registered.
cleanupListenerFieldOnly(s) ==
  IF s.messageHandler # Null THEN [s EXCEPT !.messageHandler = Null] ELSE s

\* lines 659-663
cleanupListener(s) ==
  IF s.messageHandler # Null
  THEN [s EXCEPT !.listeners = @ \ {s.messageHandler}, !.messageHandler = Null]
  ELSE s

\* Mutant of cleanupFields: the session kind is left as it was.
cleanupFieldsKeepsType(s) ==
  [s EXCEPT !.authSession = NullTuple, !.expectedOrigin = NullTuple]

\* lines 665-672
cleanupFields(s) ==
  [s EXCEPT !.authSession = NullTuple, !.expectedOrigin = NullTuple,
            !.sessionType = NullType]

cleanup(s) ==
  cleanupFields(cleanupListener(cleanupChannel(cleanupInterval(cleanupIframe(cleanupPopup(
    loggerLog(s)))))))

destroy(s) ==
  IF s.isDestroyed THEN s ELSE [cleanup(loggerLog(s)) EXCEPT !.isDestroyed = TRUE]

isActive(s) == ~s.isDestroyed

(***************************************************************************)
(* Callbacks.  A callback of session `id` is invoked and runs `beh`; the   *)
(* result says whether the invocation threw.  A callback may call back     *)
(* into the instance (cleanup, destroy, a new displayPopup), hence the     *)
(* recursion.                                                              *)
(***************************************************************************)
RECURSIVE displayPopup(_, _, _)

\* The options of the displayPopup a callback issues ("start").
NestedOptions(s) ==
  [ session |-> SessionFor(s.sessions + 1), sessionType |-> "payment", displayMode |-> "popup",
    url |-> [text |-> "absolute", scheme |-> "https", host |-> "pay.example.com", port |-> 443],
    target |-> TRUE, surface |-> "ok", held |-> FALSE ]

\* The callback cb of session id is invoked.
Invoke(s, id, cb) ==
  [s EXCEPT !.calls = Append(@, [session |-> id, cb |-> cb])]

Callback(s, id, cb, beh) ==
  LET s1 == Invoke(s, id, cb) IN
  CASE beh = "throw"   -> [st |-> s1, threw |-> TRUE]
    [] beh = "cleanup" -> [st |-> cleanup(s1), threw |-> FALSE]
    [] beh = "destroy" -> [st |-> destroy(s1), threw |-> FALSE]
    [] beh = "start"   -> [st |-> displayPopup(s1, NestedOptions(s1), "return").st,
                           threw |-> s1.isDestroyed]
    [] OTHER           -> [st |-> s1, threw |-> FALSE]

(***************************************************************************)
(* Quentli.handleReady, handleCompletion and the two message handlers.     *)
(***************************************************************************)
\* line 420: this.popupWindow || this.iframeElement?.contentWindow.  A detached
\* iframe has no contentWindow.
targetWindow(s) ==
  IF s.popupWindow # Null THEN <<"popup", s.popupWindow>>
  ELSE IF s.iframeElement # Null /\ s.iframeElement \in s.dom
       THEN <<"frame", s.iframeElement>>
       ELSE NullTuple

\* Mutant of InitMessage: the INIT is posted with the wildcard target origin.
InitMessageWildcard(s, event, channel) ==
  [ type |-> "INIT", via |-> "window.postMessage", to |-> targetWindow(s),
    targetOrigin |-> <<"*">>, accessToken |-> s.authSession[1],
    csrfToken |-> s.authSession[2], ports |-> <<channel>> ]

\* lines 449-457: INIT goes out through postMessage of the target window, the
\* credentials in its data, targetOrigin event.origin, port2 transferred.
InitMessage(s, event, channel) ==
  [ type |-> "INIT", via |-> "window.postMessage", to |-> targetWindow(s),
    targetOrigin |-> event.origin, accessToken |-> s.authSession[1],
    csrfToken |-> s.authSession[2], ports |-> <<channel>> ]

handleReady(s0, id, event, fail, beh) ==
  LET s == loggerLog(s0) IN
  IF targetWindow(s) = NullTuple THEN loggerError(s)
  ELSE IF s.authSession = NullTuple THEN loggerError(s)
  ELSE IF fail = "channel" THEN Callback(loggerError(s), id, "onError", beh).st
  ELSE
    LET c  == Len(s.channels) + 1
        s1 == [s EXCEPT !.channels = Append(@, [owner |-> id, open |-> TRUE,
                                                 transferred |-> FALSE]),
                        !.messageChannel = c]
    IN IF fail = "post" THEN Callback(loggerError(s1), id, "onError", beh).st
       ELSE loggerLog([s1 EXCEPT !.sent = Append(@, InitMessage(s1, event, c)),
                                 !.channels[c].transferred = TRUE])

\* A terminal callback followed by cleanup(); the cleanup is skipped when the
\* callback throws.
CallbackThenCleanup(s, id, cb, beh) ==
  LET r == Callback(s, id, cb, beh) IN
  IF r.threw THEN r.st ELSE cleanup(r.st)

\* Mutant of handleCompletion: in a payment session every status other than
\* COMPLETE is taken for a cancellation.
handleCompletionElseCancel(s, id, event, beh) ==
  IF s.sessionType = "payment"
  THEN IF event.data.status = "COMPLETE"
       THEN CallbackThenCleanup(loggerLog(s), id, "onComplete", beh)
       ELSE CallbackThenCleanup(loggerLog(s), id, "onCancel", beh)
  ELSE IF s.sessionType = "setup"
  THEN CallbackThenCleanup(loggerLog(s), id, "onComplete", beh)
  ELSE s

\* lines 473-517
handleCompletion(s, id, event, beh) ==
  IF s.sessionType = "payment"
  THEN IF event.data.status = "COMPLETE"
       THEN CallbackThenCleanup(loggerLog(s), id, "onComplete", beh)
       ELSE IF event.data.status = "CANCELED"
       THEN CallbackThenCleanup(loggerLog(s), id, "onCancel", beh)
       ELSE loggerLog(s)
  ELSE IF s.sessionType = "setup"
  THEN CallbackThenCleanup(loggerLog(s), id, "onComplete", beh)
  ELSE s

\* Mutant of originRejected: only the host of the origin is compared.
originRejectedByHost(s, event) ==
  s.expectedOrigin # NullTuple /\ event.origin[2] # s.expectedOrigin[2]

\* line 372: the origin check of the global listener.
originRejected(s, event) ==
  s.expectedOrigin # NullTuple /\ event.origin # s.expectedOrigin

\* Mutant of messageHandlerFn: a message of unknown type is handled as a READY.
messageHandlerFnDefaultReady(s, id, event, fail, beh) ==
  IF originRejected(s, event) THEN s
  ELSE IF event.data.type = "NONE" THEN s
  ELSE IF event.data.type = "PAYMENT_COMPLETED"
       THEN IF s.sessionType = "payment" THEN handleCompletion(s, id, event, beh) ELSE s
  ELSE IF event.data.type = "PAYMENT_METHOD_ADDED"
       THEN IF s.sessionType = "setup" THEN handleCompletion(s, id, event, beh) ELSE s
  ELSE handleReady(s, id, event, fail, beh)

\* lines 370-405: the handler setupMessageListener registers for session id.
messageHandlerFn(s0, id, event, fail, beh) ==
  IF originRejected(s0, event) THEN loggerWarn(s0)
  ELSE IF event.data.type = "NONE" THEN s0
  ELSE LET s == loggerLog(s0) IN
  IF event.data.type = "READY" THEN handleReady(s, id, event, fail, beh)
  ELSE IF event.data.type = "PAYMENT_COMPLETED"
       THEN IF s.sessionType = "payment" THEN handleCompletion(s, id, event, beh) ELSE s
  ELSE IF event.data.type = "PAYMENT_METHOD_ADDED"
       THEN IF s.sessionType = "setup" THEN handleCompletion(s, id, event, beh) ELSE s
  ELSE loggerWarn(s)

\* Mutant of portHandlerFn: port1 hands every outcome message to
\* handleCompletion, whatever the session kind.
portHandlerFnAnyKind(s0, id, event, beh) ==
  LET s == loggerLog(s0) IN
  IF event.data.type \in {"PAYMENT_COMPLETED", "PAYMENT_METHOD_ADDED"}
  THEN handleCompletion(s, id, event, beh)
  ELSE s

\* lines 437-446: port1.onmessage of the channel session id created.
portHandlerFn(s0, id, event, beh) ==
  LET s == loggerLog(s0) IN
  IF event.data.type = "PAYMENT_COMPLETED" /\ s.sessionType = "payment"
  THEN handleCompletion(s, id, event, beh)
  ELSE IF event.data.type = "PAYMENT_METHOD_ADDED" /\ s.sessionType = "setup"
  THEN handleCompletion(s, id, event, beh)
  ELSE s

\* lines 369-408
setupMessageListener(s, id) ==
  [s EXCEPT !.messageHandler = id, !.listeners = @ \cup {id}]

\* Mutant of pollTick: the tick cancels the session whether or not the popup is
\* closed.
pollTickAlwaysCancels(s, id, beh) ==
  CallbackThenCleanup(s, id, "onCancel", beh)

\* lines 545-551: one tick of the interval session id started.
pollTick(s, id, beh) ==
  IF s.popupWindow # Null /\ s.windows[s.popupWindow].closed
  THEN CallbackThenCleanup(loggerLog(s), id, "onCancel", beh)
  ELSE s

(***************************************************************************)
(* The display strategies.  Each returns the state, how the promise of the *)
(* async function settles (or how the synchronous call ends) and the kind  *)
(* of the error it fails with.                                             *)
(***************************************************************************)
handlePopup(s, id, options, beh) ==
  IF options.surface = "ok"
  THEN LET w == Len(s.windows) + 1 IN
       [ st |-> loggerLog(
                  [s EXCEPT !.windows = Append(@, [opener |-> id, closed |-> FALSE]),
                            !.popupWindow = w,
                            !.popupCheckInterval = id, !.timers = @ \cup {id}]),
         result |-> "resolved", error |-> "none" ]
  ELSE [ st |-> Callback(loggerError([s EXCEPT !.popupWindow = Null]), id, "onError", beh).st,
         result |-> "rejected", error |-> "acquisition" ]

\* Mutant of handleIframe: an interval is started for the frame as for a popup.
handleIframeWithPoll(s, id, options, beh) ==
  IF options.surface = "ok"
  THEN [ st |-> [s EXCEPT !.dom = {id}, !.iframeElement = id,
                          !.popupCheckInterval = id, !.timers = @ \cup {id}],
         result |-> "resolved", error |-> "none" ]
  ELSE [ st |-> Callback(s, id, "onError", beh).st,
         result |-> "rejected", error |-> "acquisition" ]

\* Mutant of handleIframe: the frame is appended to the children already there.
handleIframeAppendOnly(s, id, options, beh) ==
  IF options.surface = "ok"
  THEN [ st |-> [s EXCEPT !.dom = @ \cup {id}, !.iframeElement = id],
         result |-> "resolved", error |-> "none" ]
  ELSE [ st |-> Callback(s, id, "onError", beh).st,
         result |-> "rejected", error |-> "acquisition" ]

\* lines 568-606: the children of options.target are removed (584-591), the
\* iframe appended and stored (593-594) and returned (598).
handleIframe(s, id, options, beh) ==
  IF options.surface = "ok"
  THEN [ st |-> loggerLog([s EXCEPT !.dom = {id}, !.iframeElement = id]),
         result |-> "resolved", error |-> "none" ]
  ELSE IF options.surface = "failAppend"
  THEN [ st |-> Callback(loggerError([s EXCEPT !.dom = {}]), id, "onError", beh).st,
         result |-> "rejected", error |-> "acquisition" ]
  ELSE [ st |-> Callback(loggerError(s), id, "onError", beh).st,
         result |-> "rejected", error |-> "acquisition" ]

\* line 613: window.location.href = options.url
handleRedirect(s, options) ==
  [loggerLog(s) EXCEPT !.location = <<options.url.scheme, options.url.host, options.url.port>>]

handleRedirectInternal(s, options) ==
  IF s.isDestroyed THEN [st |-> s, result |-> "threw", error |-> "destroyed"]
  ELSE [st |-> handleRedirect(loggerLog(s), options), result |-> "returned", error |-> "none"]

initSession(s, options, beh) ==
  IF s.isDestroyed THEN [st |-> s, result |-> "rejected", error |-> "destroyed"]
  ELSE
    LET id == s.sessions + 1
        s1 == loggerLog([s EXCEPT !.sessionType = options.sessionType, !.sessions = id])
    IN IF options.url.text # "absolute"
       THEN [st |-> Callback(loggerError(s1), id, "onError", beh).st,
             result |-> "rejected", error |-> "url"]
       ELSE
         LET s2 == [loggerLog(s1) EXCEPT !.expectedOrigin = UrlOrigin(options.url),
                                         !.authSession = options.session]
             s3 == setupMessageListener(s2, id)
         IN CASE options.displayMode = "popup"  -> handlePopup(s3, id, options, beh)
              [] options.displayMode = "iframe" -> handleIframe(s3, id, options, beh)
              [] options.displayMode = "redirect" ->
                   [st |-> handleRedirect(s3, options), result |-> "resolved",
                    error |-> "none"]
              [] OTHER -> [st |-> s3, result |-> "rejected", error |-> "mode"]

(***************************************************************************)
(* The public wrappers of PaymentSessions and SetupSessions.  options.held *)
(* says that the wrapper object was obtained before the call rather than   *)
(* through the paymentSessions / setupSessions getter.                     *)
(***************************************************************************)
\* Mutant of getterThrows: the getters hand out the wrapper of a destroyed
\* instance.
getterNeverThrows(s, options) == FALSE

\* lines 291-313: the getters throw on a destroyed instance.
getterThrows(s, options) == s.isDestroyed /\ ~options.held

displayPopup(s, options, beh) ==
  IF getterThrows(s, options) THEN [st |-> s, result |-> "threw", error |-> "destroyed"]
  ELSE IF ~validateUrl(options.url) \/ ~validateSession(options.session)
  THEN [st |-> s, result |-> "rejected", error |-> "validation"]
  ELSE initSession(cleanup(s), options, beh)

\* Mutant of displayEmbedded: the instance is cleaned up before the arguments
\* are validated.
displayEmbeddedCleanupFirst(s, options, beh) ==
  IF getterThrows(s, options) THEN [st |-> s, result |-> "threw", error |-> "destroyed"]
  ELSE IF ~validateUrl(options.url) \/ ~validateSession(options.session)
          \/ ~validateTarget(options.target)
  THEN [st |-> cleanup(s), result |-> "rejected", error |-> "validation"]
  ELSE initSession(cleanup(s), options, beh)

displayEmbedded(s, options, beh) ==
  IF getterThrows(s, options) THEN [st |-> s, result |-> "threw", error |-> "destroyed"]
  ELSE IF ~validateUrl(options.url) \/ ~validateSession(options.session)
          \/ ~validateTarget(options.target)
  THEN [st |-> s, result |-> "rejected", error |-> "validation"]
  ELSE initSession(cleanup(s), options, beh)

displayPage(s, options) ==
  IF getterThrows(s, options) THEN [st |-> s, result |-> "threw", error |-> "destroyed"]
  ELSE IF ~validateUrl(options.url)
  THEN [st |-> s, result |-> "threw", error |-> "validation"]
  ELSE handleRedirectInternal(cleanup(s), options)

(***************************************************************************)
(* The browser delivering a window "message" event: the handlers that were *)
(* registered when the dispatch began run in registration order, each only *)
(* if it is still registered when its turn comes.                          *)
(***************************************************************************)
RECURSIVE dispatchFrom(_, _, _, _, _, _)

dispatchFrom(s, registered, id, event, fail, beh) ==
  IF id > MaxSessions + 1 THEN s
  ELSE dispatchFrom(IF id \in registered /\ id \in s.listeners
                    THEN messageHandlerFn(s, id, event, fail, beh)
                    ELSE s,
                    registered, id + 1, event, fail, beh)

dispatchMessage(s, event, fail, beh) ==
  dispatchFrom(s, s.listeners, 1, event, fail, beh)

(***************************************************************************)
(* The specification.                                                      *)
(***************************************************************************)
\* lines 274-279: the instance `new Quentli(config)` returns; debug is config.debug
\* and the constructor logs one line.
Constructed(debug) ==
  /\ messageChannel = Null
  /\ popupWindow = Null
  /\ iframeElement = Null
  /\ messageHandler = Null
  /\ popupCheckInterval = Null
  /\ authSession = NullTuple
  /\ expectedOrigin = NullTuple
  /\ isDestroyed = FALSE
  /\ sessionType = NullType
  /\ windows = <<>>
  /\ dom = StaleChildren
  /\ listeners = {}
  /\ timers = {}
  /\ channels = <<>>
  /\ sent = <<>>
  /\ calls = <<>>
  /\ sessions = 0
  /\ location = NullTuple
  /\ logger = debug
  /\ console = IF debug THEN "log" ELSE ""

\* The page runs on screen scr, and the popup geometry has not been computed;
\* req is the size it will be computed for.
Desktop(scr, req) ==
  /\ screen = scr
  /\ requested = req
  /\ position = NullTuple

\* lines 526-527: the width and height of a popup when the options give none,
\* in units of 100 pixels.
DefaultSize == [width |-> 5, height |-> 7]

\* A screen the default popup fits on, in the same units.
DefaultScreen == [width |-> 19, height |-> 10]

\* The instance is constructed with the default configuration: debug is off.
Init == Constructed(FALSE) /\ Desktop(DefaultScreen, DefaultSize)

\* The instance is constructed with debug: true.
InitDebug == Constructed(TRUE) /\ Desktop(DefaultScreen, DefaultSize)

\* The options of a call that passes validation, and those of the calls that fail
\* it: no url, a relative url, no accessToken, no csrfToken, no target.
GoodOptions(mode, surfaces) ==
  [ session : {SessionFor(sessions + 1)}, sessionType : SessionTypes, displayMode : {mode},
    url : ValidUrls, target : {TRUE}, surface : surfaces, held : {FALSE} ]

BadOptions(mode) ==
  LET good == [ session |-> SessionFor(sessions + 1), sessionType |-> "payment",
                displayMode |-> mode, url |-> CHOOSE u \in ValidUrls : TRUE,
                target |-> TRUE, surface |-> "ok", held |-> FALSE ]
  IN { [good EXCEPT !.url = u] : u \in InvalidUrls }
       \cup { [good EXCEPT !.session = x] : x \in IF mode = "redirect" THEN {} ELSE InvalidSessions }
       \cup { [good EXCEPT !.target = x] : x \in IF mode = "iframe" THEN {FALSE} ELSE {} }

\* A destroyed instance is reached through the getter or through a wrapper object
\* held since before destroy().
Holds(options) ==
  IF isDestroyed THEN { options, [options EXCEPT !.held = TRUE] } ELSE { options }

\* Once a redirect has been issued the document is being replaced: the page
\* starts no further session and receives no further event.  (The code that
\* follows the displayPage call may still call cleanup() or destroy().)
Navigated == location # NullTuple

\* The behaviours of the callback a reaction invokes: s2 is the state the
\* reaction leaves when the callback just returns.  A reaction that invokes no
\* callback has one behaviour.
BehavioursIf(s2) == IF Len(s2.calls) > Len(calls) THEN Behaviours ELSE { "return" }

\* quentli.paymentSessions.displayPopup(options) / quentli.setupSessions.displayPopup(options)
DisplayPopup ==
  /\ ~Navigated
  /\ \E o \in GoodOptions("popup", {"ok", "blocked"}) \cup BadOptions("popup") :
    \E options \in Holds(o) :
      \E beh \in BehavioursIf(displayPopup(St, options, "return").st) :
        LET r == displayPopup(St, options, beh) IN
        /\ InBounds(r.st)
        /\ Becomes(r.st)

\* quentli.paymentSessions.displayEmbedded(options) / quentli.setupSessions.displayEmbedded(options)
DisplayEmbedded ==
  /\ ~Navigated
  /\ \E o \in GoodOptions("iframe", {"ok", "failCreate", "failAppend"}) \cup BadOptions("iframe") :
    \E options \in Holds(o) :
      \E beh \in BehavioursIf(displayEmbedded(St, options, "return").st) :
        LET r == displayEmbedded(St, options, beh) IN
        /\ InBounds(r.st)
        /\ Becomes(r.st)

\* quentli.paymentSessions.displayPage(options) / quentli.setupSessions.displayPage(options)
DisplayPage ==
  /\ ~Navigated
  /\ \E o \in GoodOptions("redirect", {"ok"}) \cup BadOptions("redirect") :
    \E options \in Holds(o) :
      LET r == displayPage(St, options) IN
      /\ InBounds(r.st)
      /\ Becomes(r.st)

\* quentli.cleanup()
Cleanup ==
  \E s2 \in { cleanup(St) } : Becomes(s2)

\* quentli.destroy()
Destroy ==
  \E s2 \in { destroy(St) } : Becomes(s2)

\* The "message" events the browser may deliver to the window, from any origin,
\* with any data.
WindowEvents ==
  [ origin : Origins, data : Messages, source : {"message"} ]

\* The events a port1 may receive: a port message has no origin.
PortEvents ==
  [ origin : {NullTuple}, data : Messages, source : {"port"} ]

\* A "message" event on the window.
GlobalMessage ==
  /\ ~Navigated
  /\ \E event \in WindowEvents :
    \E fail \in IF event.data.type = "READY" THEN ReadyFailures ELSE { "none" } :
      \E beh \in BehavioursIf(dispatchMessage(St, event, fail, "return")) :
        LET s2 == dispatchMessage(St, event, fail, beh) IN
        /\ InBounds(s2)
        /\ Becomes(s2)

\* The channels whose port1 can receive a message: port1 is open and port2 went
\* out with an INIT.
LiveChannels(s) ==
  { c \in 1..Len(s.channels) : s.channels[c].open /\ s.channels[c].transferred }

\* A message on port1 of channel c, sent by the holder of the transferred port2.
ChannelMessage ==
  /\ ~Navigated
  /\ \E c \in LiveChannels(St), event \in PortEvents :
    \E beh \in BehavioursIf(portHandlerFn(St, channels[c].owner, event, "return")) :
      LET s2 == portHandlerFn(St, channels[c].owner, event, beh) IN
      /\ InBounds(s2)
      /\ Becomes(s2)

\* One tick of a running popup-close interval.
PollTick ==
  /\ ~Navigated
  /\ \E id \in timers :
    \E beh \in BehavioursIf(pollTick(St, id, "return")) :
      LET s2 == pollTick(St, id, beh) IN
      /\ InBounds(s2)
      /\ Becomes(s2)

\* The user (or the remote page) closes an open popup.
UserClosesPopup ==
  /\ ~Navigated
  /\ \E w \in 1..Len(windows) :
    /\ ~windows[w].closed
    /\ Becomes([St EXCEPT !.windows[w].closed = TRUE])

\* The host page removes a frame from the host element.
HostRemovesFrame ==
  /\ ~Navigated
  /\ \E f \in dom \ StaleChildren :
    Becomes([St EXCEPT !.dom = @ \ {f}])

Next ==
  \/ DisplayPopup
  \/ DisplayEmbedded
  \/ DisplayPage
  \/ Cleanup
  \/ Destroy
  \/ GlobalMessage
  \/ ChannelMessage
  \/ PollTick
  \/ UserClosesPopup
  \/ HostRemovesFrame

Spec == Init /\ [][Next]_vars

SpecDebug == InitDebug /\ [][Next]_vars

\* calculatePopupPosition on its own: every screen and every requested size up
\* to the bounds, the instance idle.
Screens == [ width : 0..MaxScreen, height : 0..MaxScreen ]

Sizes == [ width : 0..MaxSize, height : 0..MaxSize ]

InitPosition ==
  /\ Constructed(FALSE)
  /\ \E scr \in Screens, req \in Sizes : Desktop(scr, req)

\* calculatePopupPosition(width, height)
Calculate ==
  /\ position = NullTuple
  /\ position' = calculatePopupPosition(requested.width, requested.height, screen)
  /\ UNCHANGED << messageChannel, popupWindow, iframeElement, messageHandler,
                  popupCheckInterval, authSession, expectedOrigin, isDestroyed,
                  sessionType, windows, dom, listeners, timers, channels, sent, calls,
                  sessions, location, logger, console, screen, requested >>

NextPosition == Calculate

SpecPosition == InitPosition /\ [][NextPosition]_vars

(***************************************************************************)
(* Vocabulary of the properties.                                           *)
(***************************************************************************)
\* The callbacks invoked so far for session id, in order.
CallsOf(id) == SelectSeq(calls, LAMBDA c : c.session = id)

SessionIds == 1..sessions

\* Session id is the one in progress: its handler is the registered one.
Listening(id) == messageHandler = id /\ id \in listeners

\* Session id is a popup session that started successfully and has not been
\* torn down: its handler is registered and its interval is running.
PopupActive(id) == Listening(id) /\ popupCheckInterval = id /\ id \in timers

\* The origin that the url of every session of the model resolves to.
SessionOrigin == UrlOrigin(CHOOSE u \in ValidUrls : TRUE)

ReadyEvent(origin) ==
  [ origin |-> origin, data |-> [type |-> "READY", status |-> "NONE"], source |-> "message" ]

(***************************************************************************)
(* C1.  At most one of a session's callbacks (onComplete /                 *)
(* onPaymentMethodAdded, onCancel, onError) is invoked, and it is invoked  *)
(* at most once: no session has two callback invocations.                  *)
(***************************************************************************)
C1_AtMostOneCallback ==
  \A id \in SessionIds : Len(CallsOf(id)) <= 1

(***************************************************************************)
(* C2.  While a session is active (its handler is registered), a window    *)
(* message whose origin is not exactly the expected origin, whatever its   *)
(* data, changes nothing: no INIT, no channel, no callback, no release.    *)
(***************************************************************************)
C2_ForeignOriginIgnored ==
  \A event \in WindowEvents, fail \in ReadyFailures, beh \in Behaviours :
    (listeners # {} /\ event.origin # expectedOrigin)
      => dispatchMessage(St, event, fail, beh) = St

\* A session is waiting with a surface and credentials, so that an accepted READY
\* would send INIT, and there are origins that differ from the expected one in
\* the port only and in the scheme only.
C2_Witness ==
  /\ \E id \in SessionIds : Listening(id)
  /\ targetWindow(St) # NullTuple
  /\ authSession # NullTuple
  /\ \E o \in Origins : o[1] = expectedOrigin[1] /\ o[2] = expectedOrigin[2]
                        /\ o[3] # expectedOrigin[3]
  /\ \E o \in Origins : o[1] # expectedOrigin[1] /\ o[2] = expectedOrigin[2]
                        /\ o[3] = expectedOrigin[3]

(***************************************************************************)
(* C3.  In a successfully started popup session, a READY from the exact    *)
(* expected origin (channel creation and posting not failing) adds exactly *)
(* one INIT to the messages sent: posted to the popup this session opened, *)
(* with the expected origin as target origin, carrying the accessToken and *)
(* csrfToken given at start and one transferred port.                      *)
(***************************************************************************)
PopupOf(id) == CHOOSE w \in 1..Len(windows) : windows[w].opener = id

C3_ReadyYieldsOneInit ==
  \A id \in SessionIds :
    PopupActive(id) =>
      LET s2 == dispatchMessage(St, ReadyEvent(SessionOrigin), "none", "return")
          n  == Len(sent) + 1
      IN /\ Len(s2.sent) = n
         /\ SubSeq(s2.sent, 1, Len(sent)) = sent
         /\ s2.sent[n].type = "INIT"
         /\ s2.sent[n].to = <<"popup", PopupOf(id)>>
         /\ s2.sent[n].targetOrigin = SessionOrigin
         /\ s2.sent[n].accessToken = SessionFor(id)[1]
         /\ s2.sent[n].csrfToken = SessionFor(id)[2]
         /\ Len(s2.sent[n].ports) = 1
         /\ s2.channels[s2.sent[n].ports[1]].transferred

\* A popup session is active and has answered a READY with an INIT.
C3_Witness ==
  \E id \in SessionIds :
    /\ PopupActive(id)
    /\ sent # <<>>
    /\ sent[Len(sent)].to = <<"popup", PopupOf(id)>>

(***************************************************************************)
(* C4.  The credential pair of a session is sent in at most one INIT, for  *)
(* any number and order of READY messages from the expected origin.        *)
(***************************************************************************)
InitsOf(id) == SelectSeq(sent, LAMBDA m : m.accessToken = SessionFor(id)[1])

C4_CredentialsSentOnce ==
  \A id \in SessionIds : Len(InitsOf(id)) <= 1

(***************************************************************************)
(* C5.  No message that goes out through window messaging (postMessage on  *)
(* a window) carries the accessToken or the csrfToken.                     *)
(***************************************************************************)
C5_CredentialsOnlyOnPrivateChannel ==
  \A i \in 1..Len(sent) :
    sent[i].via = "window.postMessage"
      => sent[i].accessToken = NoToken /\ sent[i].csrfToken = NoToken

(***************************************************************************)
(* C6.  Once a later session has started, an earlier session holds nothing *)
(* any more: its listener is removed, its interval cleared, its popup      *)
(* closed, its frame out of the document, every channel it created closed; *)
(* and no message on a channel it created invokes a callback.              *)
(***************************************************************************)
Superseded(id) == id \in SessionIds /\ id < sessions

ChannelsOf(s, id) == { c \in 1..Len(s.channels) : s.channels[c].owner = id }

C6_SupersededSessionHoldsNothing ==
  \A id \in SessionIds :
    Superseded(id) =>
      /\ id \notin listeners
      /\ id \notin timers
      /\ id \notin dom
      /\ \A w \in 1..Len(windows) : windows[w].opener = id => windows[w].closed
      /\ \A c \in ChannelsOf(St, id) :
           /\ ~channels[c].open
           /\ \A event \in PortEvents, beh \in Behaviours :
                c \in LiveChannels(St)
                  => portHandlerFn(St, id, event, beh).calls = calls

(***************************************************************************)
(* C7.  When cleanup() returns, from any reachable state, every resource   *)
(* field is null: popup handle, frame element, interval, channel, handler, *)
(* credentials, expected origin and session kind.                          *)
(***************************************************************************)
AllFieldsNull(s) ==
  /\ s.popupWindow = Null
  /\ s.iframeElement = Null
  /\ s.popupCheckInterval = Null
  /\ s.messageChannel = Null
  /\ s.messageHandler = Null
  /\ s.authSession = NullTuple
  /\ s.expectedOrigin = NullTuple
  /\ s.sessionType = NullType

C7_CleanupResetsEveryField == AllFieldsNull(cleanup(St))

(***************************************************************************)
(* C8.  cleanup() is idempotent: from any reachable state, cleanup() twice *)
(* in a row leaves exactly the state cleanup() once leaves.                *)
(***************************************************************************)
C8_CleanupIdempotent == cleanup(cleanup(St)) = cleanup(St)

\* A session holds a popup, a running interval, a channel and a listener:
\* cleanup() has work to do.
C8_Witness ==
  /\ cleanup(St) # St
  /\ popupWindow # Null
  /\ popupCheckInterval # Null
  /\ messageChannel # Null
  /\ messageHandler # Null

(***************************************************************************)
(* C9.  In a popup session with no callback invoked yet, when the popup    *)
(* reports closed, the next tick invokes onCancel once and tears the       *)
(* session down: interval cleared, listener removed, every channel of the  *)
(* session closed, so that nothing can invoke a second callback.           *)
(***************************************************************************)
C9_ClosedPopupCancelsOnce ==
  \A id \in SessionIds, beh \in Behaviours :
    ( /\ PopupActive(id)
      /\ CallsOf(id) = <<>>
      /\ popupWindow # Null
      /\ windows[popupWindow].closed )
    => LET s2 == pollTick(St, id, beh) IN
       /\ s2.calls = Append(calls, [session |-> id, cb |-> "onCancel"])
       /\ id \notin s2.timers
       /\ id \notin s2.listeners
       /\ \A c \in ChannelsOf(s2, id) : ~s2.channels[c].open

(***************************************************************************)
(* C10.  When the surface cannot be acquired (window.open returns null,    *)
(* frame creation or attachment throws), the start invokes onError once,   *)
(* rejects, and leaves no listener, no interval, no channel, no            *)
(* credentials and no expected origin.                                     *)
(***************************************************************************)
FailedAcquisitions ==
  { [o EXCEPT !.session = SessionFor(sessions + 1)] :
      o \in [ session : {NoToken}, sessionType : SessionTypes,
              displayMode : {"popup"}, url : ValidUrls, target : {TRUE},
              surface : {"blocked"}, held : {FALSE} ]
         \cup [ session : {NoToken}, sessionType : SessionTypes,
                displayMode : {"iframe"}, url : ValidUrls, target : {TRUE},
                surface : {"failCreate", "failAppend"}, held : {FALSE} ] }

StartOf(options) ==
  IF options.displayMode = "popup" THEN displayPopup(St, options, "return")
  ELSE displayEmbedded(St, options, "return")

C10_FailedAcquisitionLeavesNothing ==
  \A options \in FailedAcquisitions :
    ~isDestroyed =>
      LET r == StartOf(options) IN
      /\ r.result = "rejected"
      /\ r.st.calls = Append(calls, [session |-> sessions + 1, cb |-> "onError"])
      /\ r.st.listeners = {}
      /\ r.st.messageHandler = Null
      /\ r.st.timers = {}
      /\ r.st.messageChannel = Null
      /\ r.st.authSession = NullTuple
      /\ r.st.expectedOrigin = NullTuple

(***************************************************************************)
(* C11.  When `new MessageChannel()` or the posting of INIT fails after a  *)
(* READY from the expected origin, onError is invoked and the session is   *)
(* over: listener removed, surface released, interval cleared, credentials *)
(* cleared.                                                                *)
(***************************************************************************)
\* Session id waits for READY with a surface to post to and credentials to send.
AwaitingReady(id) ==
  Listening(id) /\ targetWindow(St) # NullTuple /\ authSession # NullTuple

C11_ReadyFailureIsTerminal ==
  \A id \in SessionIds, fail \in ReadyFailures \ {"none"} :
    AwaitingReady(id) =>
      LET s2 == dispatchMessage(St, ReadyEvent(SessionOrigin), fail, "return") IN
      /\ s2.calls = Append(calls, [session |-> id, cb |-> "onError"])
      /\ id \notin s2.listeners
      /\ id \notin s2.timers
      /\ s2.popupWindow = Null
      /\ s2.iframeElement = Null
      /\ s2.authSession = NullTuple

(***************************************************************************)
(* C12.  A start whose url is absent, empty or not absolute, or (popup and *)
(* embedded) whose session lacks accessToken or csrfToken, fails before    *)
(* anything happens: the call rejects (displayPage throws) and the state   *)
(* is exactly what it was, so no window, frame, listener is created and no *)
(* credential, origin or session-kind field is written.                    *)
(***************************************************************************)
\* The options with a configuration error: a bad url or an incomplete session.
ConfigErrors(mode) == { o \in BadOptions(mode) : o.target }

Failed(result) == result \in { "rejected", "threw" }

C12_ConfigErrorAllocatesNothing ==
  /\ \A o \in ConfigErrors("popup"), beh \in Behaviours :
       LET r == displayPopup(St, o, beh) IN Failed(r.result) /\ r.st = St
  /\ \A o \in ConfigErrors("iframe"), beh \in Behaviours :
       LET r == displayEmbedded(St, o, beh) IN Failed(r.result) /\ r.st = St
  /\ \A o \in ConfigErrors("redirect") :
       LET r == displayPage(St, o) IN Failed(r.result) /\ r.st = St

\* An idle, live instance that has run a session before: a start that got past
\* validation would write fields and register a listener.
C12_Witness ==
  /\ ~isDestroyed
  /\ sessions >= 1
  /\ AllFieldsNull(St)
  /\ listeners = {}
  /\ ~Navigated

(***************************************************************************)
(* C13.  A start with a configuration error (bad url, incomplete session)  *)
(* on a live instance rejects and also invokes the supplied onError        *)
(* exactly once.                                                           *)
(***************************************************************************)
\* r reports one onError on top of the callbacks invoked before.
OneMoreOnError(r) ==
  /\ Len(r.st.calls) = Len(calls) + 1
  /\ SubSeq(r.st.calls, 1, Len(calls)) = calls
  /\ r.st.calls[Len(calls) + 1].cb = "onError"

C13_ConfigErrorReportedTwice ==
  ~isDestroyed =>
    /\ \A o \in ConfigErrors("popup") :
         LET r == displayPopup(St, o, "return") IN
         r.result = "rejected" /\ OneMoreOnError(r)
    /\ \A o \in ConfigErrors("iframe") :
         LET r == displayEmbedded(St, o, "return") IN
         r.result = "rejected" /\ OneMoreOnError(r)

(***************************************************************************)
(* C14.  On a destroyed instance every start fails and leaves the state    *)
(* exactly as it was, through the accessors and through a wrapper held     *)
(* since before destroy().  With options that pass validation the error is *)
(* the "destroyed" one: thrown by the accessor, or, on a held wrapper,     *)
(* rejected by initSession (thrown by handleRedirectInternal).  With       *)
(* options that fail validation a held wrapper fails with the validation   *)
(* error.                                                                  *)
(***************************************************************************)
\* Every option record of a mode, reached through the accessor or a held wrapper.
AnyHold(os) == os \cup { [o EXCEPT !.held = TRUE] : o \in os }

PopupStarts(os) ==
  { displayPopup(St, o, beh) : o \in AnyHold(os), beh \in Behaviours }

EmbeddedStarts(os) ==
  { displayEmbedded(St, o, beh) : o \in AnyHold(os), beh \in Behaviours }

PageStarts(os) == { displayPage(St, o) : o \in AnyHold(os) }

ValidStarts ==
  PopupStarts(GoodOptions("popup", {"ok", "blocked"}))
    \cup EmbeddedStarts(GoodOptions("iframe", {"ok", "failCreate", "failAppend"}))
    \cup PageStarts(GoodOptions("redirect", {"ok"}))

InvalidStarts ==
  PopupStarts(BadOptions("popup")) \cup EmbeddedStarts(BadOptions("iframe"))
    \cup PageStarts(BadOptions("redirect"))

RedirectOnly(r) ==
  /\ r.result = "returned"
  /\ r.st.location # NullTuple
  /\ r.st.listeners = {}
  /\ r.st.timers = {}
  /\ Len(r.st.channels) = Len(channels)
  /\ r.st.messageChannel = Null
  /\ r.st.calls = calls
  /\ r.st.sent = sent
  /\ destroy(r.st) = [r.st EXCEPT !.isDestroyed = TRUE]

C15_RedirectHoldsNothing ==
  ~isDestroyed =>
    \A o \in GoodOptions("redirect", {"ok"}) :
      LET r == displayPage(St, o) IN RedirectOnly(r) /\ AllFieldsNull(r.st)

(***************************************************************************)
(* C16.  The promise of a displayPopup / displayEmbedded call with valid   *)
(* options on a live instance is settled only when the surface could not   *)
(* be acquired or a callback of the session has been invoked: it is not    *)
(* settled while the session waits for READY or for an outcome.            *)
(***************************************************************************)
Settled(r) == r.result \in { "resolved", "rejected" }

\* The session r started has had a terminal outcome: one of its callbacks ran.
OutcomeIn(r) == \E i \in 1..Len(r.st.calls) : r.st.calls[i].session = r.st.sessions

C16_SettlesOnlyAtOutcome ==
  ~isDestroyed =>
    \A r \in PopupStarts(GoodOptions("popup", {"ok", "blocked"}))
               \cup EmbeddedStarts(GoodOptions("iframe", {"ok", "failCreate", "failAppend"})) :
      Settled(r) => r.error = "acquisition" \/ OutcomeIn(r)

(***************************************************************************)
(* C17.  In a payment session, an accepted PAYMENT_COMPLETED, on the       *)
(* window listener or on the session's channel, invokes onComplete (and    *)
(* nothing else) when its status is COMPLETE and onCancel (and nothing     *)
(* else) when it is CANCELED, and the session is then torn down.           *)
(***************************************************************************)
OutcomeEvent(type, status, source) ==
  [ origin |-> IF source = "message" THEN SessionOrigin ELSE NullTuple,
    data |-> [type |-> type, status |-> status], source |-> source ]

\* Session id holds nothing in state s.
TornDown(s, id) ==
  /\ id \notin s.listeners
  /\ id \notin s.timers
  /\ id \notin s.dom
  /\ \A w \in 1..Len(s.windows) : s.windows[w].opener = id => s.windows[w].closed
  /\ s.messageHandler # id
  /\ s.popupCheckInterval # id
  /\ s.messageChannel = Null \/ s.channels[s.messageChannel].owner # id

\* The reactions of session id to an outcome message: that of the window
\* listener, and that of port1 of every live channel of the session.
OutcomeReactions(id, type, status, beh) ==
  { dispatchMessage(St, OutcomeEvent(type, status, "message"), "none", beh) }
    \cup { portHandlerFn(St, id, OutcomeEvent(type, status, "port"), beh) :
             c \in ChannelsOf(St, id) \cap LiveChannels(St) }

PaymentCallback(status) == IF status = "COMPLETE" THEN "onComplete" ELSE "onCancel"

C17_PaymentOutcomeClassified ==
  \A id \in SessionIds, status \in {"COMPLETE", "CANCELED"}, beh \in Behaviours :
    (Listening(id) /\ sessionType = "payment") =>
      \A s2 \in OutcomeReactions(id, "PAYMENT_COMPLETED", status, beh) :
        /\ s2.calls = Append(calls, [session |-> id, cb |-> PaymentCallback(status)])
        /\ TornDown(s2, id)

(***************************************************************************)
(* C18.  In a setup session, an accepted PAYMENT_METHOD_ADDED invokes      *)
(* onComplete (the caller's onPaymentMethodAdded) and nothing else, an     *)
(* accepted message that signals cancellation (status CANCELED) invokes    *)
(* onCancel and nothing else, and the session is then torn down.           *)
(***************************************************************************)
\* The messages by which the remote page can signal a cancellation.
CancelSignals ==
  { m \in Messages : m.status = "CANCELED" }

SetupCallback(m) == IF m.status = "CANCELED" THEN "onCancel" ELSE "onComplete"

C18_SetupOutcomeClassified ==
  \A id \in SessionIds, beh \in Behaviours :
    (Listening(id) /\ sessionType = "setup") =>
      \A m \in CancelSignals \cup { [type |-> "PAYMENT_METHOD_ADDED", status |-> "NONE"] } :
        \A s2 \in OutcomeReactions(id, m.type, m.status, beh) :
          /\ s2.calls = Append(calls, [session |-> id, cb |-> SetupCallback(m)])
          /\ TornDown(s2, id)

(***************************************************************************)
(* C19.  When a terminal callback of session A starts session B (a popup   *)
(* session), then at the end of A's reaction B is active: its listener is  *)
(* registered, its popup open, its interval running, its credentials and   *)
(* expected origin stored; and A holds nothing.  The reactions are the     *)
(* outcome message on the window listener and the tick after the popup     *)
(* closed.                                                                 *)
(***************************************************************************)
\* Session b is an active popup session in state s.
ActivePopupIn(s, b) ==
  /\ b \in s.listeners
  /\ s.messageHandler = b
  /\ b \in s.timers
  /\ s.popupCheckInterval = b
  /\ s.popupWindow # Null
  /\ s.windows[s.popupWindow].opener = b
  /\ ~s.windows[s.popupWindow].closed
  /\ s.authSession = SessionFor(b)
  /\ s.expectedOrigin = SessionOrigin
  /\ s.sessionType = "payment"

\* The reactions of session id in which a terminal callback runs `beh`.
TerminalReactions(id, beh) ==
  { dispatchMessage(St, OutcomeEvent(t, "COMPLETE", "message"), "none", beh) :
      t \in IF sessionType = "payment" THEN {"PAYMENT_COMPLETED"}
            ELSE {"PAYMENT_METHOD_ADDED"} }
    \cup { pollTick(St, id, beh) :
             x \in IF PopupActive(id) /\ popupWindow # Null /\ windows[popupWindow].closed
                   THEN {id} ELSE {} }

C19_ReentrantStartSurvives ==
  \A id \in SessionIds :
    (Listening(id) /\ sessionType # NullType) =>
      \A s2 \in TerminalReactions(id, "start") :
        /\ Len(s2.calls) = Len(calls) + 1
        /\ ActivePopupIn(s2, sessions + 1)
        /\ TornDown(s2, id)

(***************************************************************************)
(* C20.  In every reachable state at most one message listener is          *)
(* registered, at most one interval runs, at most one channel has its      *)
(* port1 open, and at most one surface exists: an open popup or a frame in *)
(* the document.                                                           *)
(***************************************************************************)
OpenChannels == { c \in 1..Len(channels) : channels[c].open }

OpenPopups == { w \in 1..Len(windows) : ~windows[w].closed }

Frames == dom \ StaleChildren

AtMostOneListener == Cardinality(listeners) <= 1

AtMostOneTimer == Cardinality(timers) <= 1

AtMostOneSurface == Cardinality(OpenPopups) + Cardinality(Frames) <= 1

AtMostOneOpenChannel == Cardinality(OpenChannels) <= 1

C20_OneSessionsResources ==
  /\ AtMostOneListener
  /\ AtMostOneTimer
  /\ AtMostOneSurface
  /\ AtMostOneOpenChannel

(***************************************************************************)
(* C21.  A channel is created, and the channel field set, only by the      *)
(* reaction to a READY from the exact expected origin of a session that    *)
(* holds a surface and credentials; and while the channel field is set,    *)
(* the channel is one the session in progress created, and that session    *)
(* still holds its credentials and expected origin.                        *)
(***************************************************************************)
\* The step is the reaction of the registered handler to a READY from the exact
\* expected origin, taken with a surface and credentials present.
ReadyStep ==
  /\ listeners # {}
  /\ expectedOrigin # NullTuple
  /\ targetWindow(St) # NullTuple
  /\ authSession # NullTuple
  /\ \E fail \in ReadyFailures, beh \in Behaviours :
       St' = dispatchMessage(St, ReadyEvent(expectedOrigin), fail, beh)

ChannelOfSessionInProgress ==
  messageChannel # Null =>
    /\ messageHandler # Null
    /\ channels[messageChannel].owner = messageHandler
    /\ authSession = SessionFor(messageHandler)
    /\ expectedOrigin # NullTuple

C21_ChannelOnlyAfterReady ==
  /\ []ChannelOfSessionInProgress
  /\ [][ (Len(channels') > Len(channels)
            \/ (messageChannel' # Null /\ messageChannel' # messageChannel))
         => ReadyStep ]_vars

\* The channel field is set: a READY has been answered.
C21_Witness == messageChannel # Null /\ channels[messageChannel].transferred

(***************************************************************************)
(* C22.  In the state cleanup() or destroy() leaves (after a terminal      *)
(* outcome or called by the caller), no message has an effect: a window    *)
(* message finds no handler, and a message on a port1 that is still able   *)
(* to receive one changes nothing.  The state stays exactly as it was.     *)
(***************************************************************************)
\* No window message and no port message changes state s.
Inert(s) ==
  /\ \A event \in WindowEvents, fail \in ReadyFailures, beh \in Behaviours :
       dispatchMessage(s, event, fail, beh) = s
  /\ \A c \in LiveChannels(s), event \in PortEvents, beh \in Behaviours :
       portHandlerFn(s, s.channels[c].owner, event, beh) = s

C22_NoEffectAfterCleanup ==
  [](/\ Inert(cleanup(St))
     /\ Inert(destroy(St))
     /\ cleanup(St).listeners = {})

\* A session that answered a READY has had its terminal callback and has been
\* cleaned up.
C22_Witness ==
  /\ calls # <<>>
  /\ calls[Len(calls)].cb \in {"onComplete", "onCancel"}
  /\ channels # <<>>
  /\ \A c \in 1..Len(channels) : channels[c].transferred /\ ~channels[c].open
  /\ St = cleanup(St)
  /\ sessionType = NullType
  /\ listeners = {}

(***************************************************************************)
(* C23.  A message without a type field, or of a type other than READY,    *)
(* PAYMENT_COMPLETED and PAYMENT_METHOD_ADDED, changes nothing in any      *)
(* state, on the window listener (from the expected origin or any other)   *)
(* and on a port1.                                                         *)
(***************************************************************************)
KnownTypes == { "READY", "PAYMENT_COMPLETED", "PAYMENT_METHOD_ADDED" }

UnknownMessages == { m \in Messages : m.type \notin KnownTypes }

C23_UnknownMessageIgnored ==
  /\ \A event \in WindowEvents, fail \in ReadyFailures, beh \in Behaviours :
       event.data \in UnknownMessages => dispatchMessage(St, event, fail, beh) = St
  /\ \A c \in LiveChannels(St), event \in PortEvents, beh \in Behaviours :
       event.data \in UnknownMessages
         => portHandlerFn(St, channels[c].owner, event, beh) = St

\* A session is in progress with its channel live: a message of a known type
\* would have an effect on either path.
C23_Witness ==
  \E id \in SessionIds :
    /\ Listening(id)
    /\ AwaitingReady(id)
    /\ messageChannel \in LiveChannels(St)
    /\ sessionType # NullType

(***************************************************************************)
(* C24.  The reaction that invokes a terminal callback (an outcome message *)
(* or the tick after the popup closed) ends with the session torn down,    *)
(* whether the callback returns or throws: popup closed, interval cleared, *)
(* channel closed, listener removed, fields reset.                         *)
(***************************************************************************)
C24_TeardownAfterEveryCallback ==
  \A id \in SessionIds, beh \in {"return", "throw"} :
    (Listening(id) /\ sessionType # NullType) =>
      \A s2 \in TerminalReactions(id, beh) :
        /\ Len(s2.calls) = Len(calls) + 1
        /\ TornDown(s2, id)
        /\ s2.authSession = NullTuple
        /\ s2.expectedOrigin = NullTuple
        /\ s2.sessionType = NullType

(***************************************************************************)
(* C25.  A displayEmbedded start that succeeds leaves the host element     *)
(* with exactly one child, the frame of the session just started, which is *)
(* the frame the instance holds and hands back; whatever was in the host   *)
(* before (children of the host page, the frame of an earlier session) is  *)
(* gone.  In every reachable state the host holds no frame other than the  *)
(* one the instance holds.                                                 *)
(***************************************************************************)
C25_HostHoldsOnlyLatestFrame ==
  /\ Frames \subseteq { iframeElement }
  /\ ~isDestroyed =>
       \A o \in GoodOptions("iframe", {"ok"}), beh \in Behaviours :
         LET r == displayEmbedded(St, o, beh) IN
         /\ r.result = "resolved"
         /\ r.st.iframeElement = sessions + 1
         /\ r.st.dom = { sessions + 1 }

\* A second session has put its frame in the host.
C25_Witness == sessions = 2 /\ iframeElement = 2 /\ dom = {2}

(***************************************************************************)
(* C26.  While the instance holds a frame no interval exists; a frame the  *)
(* host page has removed from the document leaves the session in progress, *)
(* with its listener, credentials and expected origin; and a step taken    *)
(* while the instance holds a frame invokes onCancel only as the reaction  *)
(* to an accepted message that signals cancellation, on the window         *)
(* listener or on a port1.                                                 *)
(***************************************************************************)
EmbeddedNoTimer ==
  iframeElement # Null => timers = {} /\ popupCheckInterval = Null

RemovedFrameStillActive ==
  (iframeElement # Null /\ iframeElement \notin dom) =>
    /\ Listening(iframeElement)
    /\ authSession = SessionFor(iframeElement)
    /\ expectedOrigin = SessionOrigin
    /\ sessionType # NullType

\* The step invokes an onCancel.
OnCancelAdded ==
  \E i \in (Len(calls) + 1)..Len(calls') : calls'[i].cb = "onCancel"

\* The step is the reaction to a message from the expected origin, or on a live
\* port1, that signals cancellation.
CancelMessageStep ==
  \E m \in CancelSignals, beh \in Behaviours :
    \/ /\ listeners # {}
       /\ St' = dispatchMessage(St, OutcomeEvent(m.type, m.status, "message"), "none", beh)
    \/ \E c \in LiveChannels(St) :
         St' = portHandlerFn(St, channels[c].owner,
                             OutcomeEvent(m.type, m.status, "port"), beh)

C26_EmbeddedCancelOnlyByMessage ==
  /\ [](EmbeddedNoTimer /\ RemovedFrameStillActive)
  /\ [][ (iframeElement # Null /\ OnCancelAdded) => CancelMessageStep ]_vars

\* An embedded session whose frame the host page has removed.
C26_Witness ==
  iframeElement # Null /\ iframeElement \notin dom /\ Listening(iframeElement)

(***************************************************************************)
(* C27.  The only thing time drives is the interval, and a tick that does  *)
(* not find the popup closed changes nothing: a session whose popup is     *)
(* open stays exactly as it is, resources and all, over any number of      *)
(* ticks.  No callback is invoked and nothing is released.                 *)
(***************************************************************************)
PopupReportsClosed == popupWindow # Null /\ windows[popupWindow].closed

C27_NoTimeout ==
  \A id \in timers, beh \in Behaviours :
    ~PopupReportsClosed => pollTick(St, id, beh) = St

\* A popup session in progress, its popup open and its interval running.
C27_Witness ==
  \E id \in SessionIds :
    PopupActive(id) /\ popupWindow # Null /\ ~windows[popupWindow].closed

(***************************************************************************)
(* The debug flag.                                                         *)
(***************************************************************************)
\* The instance in state s with the logger enabled, and with it disabled.
Verbose(s) == [s EXCEPT !.logger = TRUE]

Silent(s) == [s EXCEPT !.logger = FALSE]

\* What the protocol sees of a state: everything but the logger and the console.
Protocol(s) == [s EXCEPT !.logger = FALSE, !.console = ""]

\* Two calls of a display method end alike.
SameOutcome(r1, r2) ==
  /\ Protocol(r1.st) = Protocol(r2.st)
  /\ r1.result = r2.result
  /\ r1.error = r2.error

\* The options a display method of the given mode may be called with.
AnyOptions(mode, surfaces) ==
  UNION { Holds(o) : o \in GoodOptions(mode, surfaces) \cup BadOptions(mode) }

\* C28: the debug flag has no protocol effect.  From every reachable state,
\* the same call, message or tick leaves the instance with the logger enabled
\* and the instance with the logger disabled with the same messages sent, the
\* same callbacks invoked in the same order, the same resources and fields
\* and the same outcome of the call; the two instances start alike, so they
\* stay alike after every step of a common sequence.
C28_DebugHasNoProtocolEffect ==
  /\ \A options \in AnyOptions("popup", {"ok", "blocked"}) :
     \A beh \in BehavioursIf(displayPopup(St, options, "return").st) :
       SameOutcome(displayPopup(Verbose(St), options, beh),
                   displayPopup(Silent(St), options, beh))
  /\ \A options \in AnyOptions("iframe", {"ok", "failCreate", "failAppend"}) :
     \A beh \in BehavioursIf(displayEmbedded(St, options, "return").st) :
       SameOutcome(displayEmbedded(Verbose(St), options, beh),
                   displayEmbedded(Silent(St), options, beh))
  /\ \A options \in AnyOptions("redirect", {"ok"}) :
       SameOutcome(displayPage(Verbose(St), options), displayPage(Silent(St), options))
  /\ Protocol(cleanup(Verbose(St))) = Protocol(cleanup(Silent(St)))
  /\ Protocol(destroy(Verbose(St))) = Protocol(destroy(Silent(St)))
  /\ \A event \in WindowEvents :
     \A fail \in IF event.data.type = "READY" THEN ReadyFailures ELSE { "none" } :
     \A beh \in BehavioursIf(dispatchMessage(St, event, fail, "return")) :
       Protocol(dispatchMessage(Verbose(St), event, fail, beh))
         = Protocol(dispatchMessage(Silent(St), event, fail, beh))
  /\ \A c \in LiveChannels(St), event \in PortEvents :
     \A beh \in BehavioursIf(portHandlerFn(St, channels[c].owner, event, "return")) :
       Protocol(portHandlerFn(Verbose(St), channels[c].owner, event, beh))
         = Protocol(portHandlerFn(Silent(St), channels[c].owner, event, beh))
  /\ \A id \in timers :
     \A beh \in BehavioursIf(pollTick(St, id, "return")) :
       Protocol(pollTick(Verbose(St), id, beh)) = Protocol(pollTick(Silent(St), id, beh))

\* A debugging instance that has written to the console on behalf of a session
\* that sent its INIT and invoked a callback.
C28_Witness ==
  /\ logger
  /\ console \in {"log", "warn", "error"}
  /\ Len(sent) > 0
  /\ Len(calls) > 0

(***************************************************************************)
(* C29.  Every INIT sent went to the surface acquired by the session whose *)
(* credentials it carries: the popup that session opened or the frame that *)
(* session created, never a surface of an earlier session.                 *)
(***************************************************************************)
\* to is the popup session id opened or the frame session id created.
SurfaceOf(s, id, to) ==
  \/ to # NullTuple /\ to[1] = "popup" /\ s.windows[to[2]].opener = id
  \/ to = <<"frame", id>>

C29_InitGoesToCurrentSurface ==
  \A i \in 1..Len(sent), id \in SessionIds :
    sent[i].accessToken = SessionFor(id)[1] => SurfaceOf(St, id, sent[i].to)

(***************************************************************************)
(* C30.  Every channel of a session that is no longer in progress has its  *)
(* port1 closed, however many READY messages the session received; and a   *)
(* message on a channel of such a session invokes no callback, whatever    *)
(* session has started since.                                              *)
(***************************************************************************)
\* Session id is finished in s: its handler is no longer the registered one.
Finished(s, id) == s.messageHandler # id

C30_ChannelsClosedAtTeardown ==
  /\ \A c \in OpenChannels : ~Finished(St, channels[c].owner)
  /\ \A c \in LiveChannels(St), event \in PortEvents, beh \in Behaviours :
       Finished(St, channels[c].owner)
         => portHandlerFn(St, channels[c].owner, event, beh).calls = calls

(***************************************************************************)
(* C31.  Whenever a message handler is registered on the window, the       *)
(* expected origin is set, so the handler's origin check is in force: every *)
(* message whose origin differs from the expected origin is rejected.      *)
(***************************************************************************)
C31_ListenerHasExpectedOrigin ==
  listeners # {} =>
    /\ expectedOrigin # NullTuple
    /\ \A event \in WindowEvents :
         event.origin # expectedOrigin => originRejected(St, event)

\* The handler of a second session is registered, after the first session was
\* torn down and its expected origin reset.
C31_Witness ==
  /\ listeners = {2}
  /\ expectedOrigin = SessionOrigin
  /\ Len(calls) > 0

(***************************************************************************)
(* C32.  An outcome message of the other session kind (PAYMENT_METHOD_ADDED *)
(* in a payment session, PAYMENT_COMPLETED in a setup session) changes      *)
(* nothing, whether it arrives as a window message from any origin or on   *)
(* port1 of a channel: no callback is invoked, nothing is torn down and    *)
(* the session stays as it was.                                            *)
(***************************************************************************)
\* The outcome message type of the session kind other than kind.
OtherKindType(kind) ==
  IF kind = "payment" THEN "PAYMENT_METHOD_ADDED" ELSE "PAYMENT_COMPLETED"

C32_OtherKindOutcomeIgnored ==
  sessionType \in SessionTypes =>
    /\ \A event \in WindowEvents, beh \in Behaviours :
         event.data.type = OtherKindType(sessionType)
           => dispatchMessage(St, event, "none", beh) = St
    /\ \A c \in LiveChannels(St), event \in PortEvents, beh \in Behaviours :
         event.data.type = OtherKindType(sessionType)
           => portHandlerFn(St, channels[c].owner, event, beh) = St

\* A session that is listening on the window and on port1 of its channel.
C32_Witness ==
  /\ sessionType \in SessionTypes
  /\ messageHandler # Null
  /\ messageHandler \in listeners
  /\ messageChannel \in LiveChannels(St)

(***************************************************************************)
(* C33.  In a payment session, a PAYMENT_COMPLETED message that the        *)
(* handler accepts and whose status is neither COMPLETE nor CANCELED (or   *)
(* is absent) changes nothing: no callback, no teardown.  The session      *)
(* stays active, and a COMPLETE that follows is still handed to the        *)
(* session's onComplete.                                                   *)
(***************************************************************************)
\* The statuses handleCompletion has no branch for; "NONE" is the absent one.
UnsettledStatuses == { "PENDING", "NONE" }

C33_UnsettledStatusIgnored ==
  sessionType = "payment" =>
    \A status \in UnsettledStatuses, beh \in Behaviours :
      /\ LET s2 == dispatchMessage(St, OutcomeEvent("PAYMENT_COMPLETED", status, "message"),
                                   "none", beh)
             s3 == dispatchMessage(s2, OutcomeEvent("PAYMENT_COMPLETED", "COMPLETE", "message"),
                                   "none", "return")
         IN /\ s2 = St
            /\ \A id \in SessionIds :
                 Listening(id)
                   => s3.calls = Append(calls, [session |-> id, cb |-> "onComplete"])
      /\ \A c \in LiveChannels(St) :
           portHandlerFn(St, channels[c].owner,
                         OutcomeEvent("PAYMENT_COMPLETED", status, "port"), beh) = St

\* A payment session that is listening on the window and on port1 of its channel.
C33_Witness ==
  /\ sessionType = "payment"
  /\ messageHandler \in listeners
  /\ expectedOrigin = SessionOrigin
  /\ messageChannel \in LiveChannels(St)
  /\ calls = <<>>

(***************************************************************************)
(* C34.  While a session is in progress, a start whose arguments fail      *)
(* validation (bad url, incomplete session, missing target) fails with the *)
(* validation error and leaves the whole state as it was: the surface, the *)
(* listener, the timer, the channel, the credentials and the expected      *)
(* origin of the session in progress are unchanged, and the completion     *)
(* message of its kind still reaches its onComplete.                       *)
(***************************************************************************)
\* The message that completes a session of the given kind.
CompletionOf(kind) ==
  IF kind = "payment"
  THEN OutcomeEvent("PAYMENT_COMPLETED", "COMPLETE", "message")
  ELSE OutcomeEvent("PAYMENT_METHOD_ADDED", "NONE", "message")

C34_InvalidStartLeavesActiveSession ==
  \A id \in SessionIds :
    Listening(id) =>
      \A r \in InvalidStarts :
        /\ Failed(r.result)
        /\ r.error = "validation"
        /\ r.st = St
        /\ dispatchMessage(r.st, CompletionOf(sessionType), "none", "return").calls
             = Append(calls, [session |-> id, cb |-> "onComplete"])

\* A popup session that has answered a READY and is waiting for its outcome.
C34_Witness ==
  /\ PopupActive(sessions)
  /\ messageChannel \in LiveChannels(St)
  /\ authSession = SessionFor(sessions)
  /\ ~windows[popupWindow].closed

(***************************************************************************)
(* C35.  A popup that the instance closes itself (in the teardown after an *)
(* outcome, when a new start supersedes the session, or in cleanup() or    *)
(* destroy()) never leads to onCancel: the step that closes it also drops  *)
(* the handle and leaves no timer whose tick would act, and the handle     *)
(* never names an earlier window again, so no later tick sees that popup.  *)
(***************************************************************************)
\* Window w is closed by this step, and not by the user.
ClosedByInstance(w) ==
  /\ ~windows[w].closed
  /\ windows'[w].closed
  /\ St' # [St EXCEPT !.windows[w].closed = TRUE]

\* No tick of a running interval does anything in state s.
TicksIdle(s) ==
  \A id \in s.timers, beh \in Behaviours : pollTick(s, id, beh) = s

C35_ProgrammaticCloseNeverCancels ==
  /\ [][ \A w \in 1..Len(windows) :
           ClosedByInstance(w) => popupWindow' # w /\ TicksIdle(St') ]_vars
  /\ [][ popupWindow' # popupWindow
           => \/ popupWindow' = Null
              \/ Len(windows') > Len(windows) /\ popupWindow' = Len(windows') ]_vars

\* The instance has closed a popup itself: the window is closed, the handle is
\* reset and no onCancel was invoked.
C35_Witness ==
  /\ popupWindow = Null
  /\ \E w \in 1..Len(windows) : windows[w].closed
  /\ \A i \in 1..Len(calls) : calls[i].cb # "onCancel"

(***************************************************************************)
(* C36.  A READY from the expected origin that arrives while the session   *)
(* in progress has no surface of its own (its popup was blocked, its frame *)
(* was not created or is detached) or while no credentials are stored      *)
(* sends no INIT, creates no channel and invokes no callback.              *)
(***************************************************************************)
\* The session in progress holds a surface it acquired itself, or none.
HoldsOwnSurface(s) ==
  \/ s.popupWindow # Null /\ s.windows[s.popupWindow].opener = s.messageHandler
  \/ s.iframeElement # Null /\ s.iframeElement \in s.dom

C36_ReadyWithoutSurfaceDoesNothing ==
  (listeners # {} /\ (~HoldsOwnSurface(St) \/ authSession = NullTuple)) =>
    \A fail \in ReadyFailures, beh \in Behaviours :
      LET s2 == dispatchMessage(St, ReadyEvent(expectedOrigin), fail, beh) IN
      /\ s2.sent = sent
      /\ s2.channels = channels
      /\ s2.calls = calls

(***************************************************************************)
(* C37.  isActive() is true exactly until the first destroy(): destroy()   *)
(* makes it false, no call or event makes it true again, a second destroy() *)
(* changes nothing, and destroy() releases every resource: no listener, no *)
(* timer, no open popup, no frame and no open channel is left.             *)
(***************************************************************************)
\* State s holds no browser resource.
NothingHeld(s) ==
  /\ s.listeners = {}
  /\ s.timers = {}
  /\ \A w \in 1..Len(s.windows) : s.windows[w].closed
  /\ s.dom \ StaleChildren = {}
  /\ \A c \in 1..Len(s.channels) : ~s.channels[c].open

C37_DestroyIsFinal ==
  /\ isActive(St) <=> ~isDestroyed
  /\ ~isActive(destroy(St))
  /\ destroy(destroy(St)) = destroy(St)
  /\ NothingHeld(destroy(St))
  /\ isDestroyed =>
       /\ ~isActive(cleanup(St))
       /\ \A r \in ValidStarts \cup InvalidStarts : ~isActive(r.st)
       /\ \A event \in WindowEvents, fail \in ReadyFailures, beh \in Behaviours :
            ~isActive(dispatchMessage(St, event, fail, beh))
       /\ \A c \in LiveChannels(St), event \in PortEvents, beh \in Behaviours :
            ~isActive(portHandlerFn(St, channels[c].owner, event, beh))

(***************************************************************************)
(* C38.  For every screen and every non-negative requested width and       *)
(* height, the position calculatePopupPosition returns has left >= 0 and   *)
(* top >= 0, and each coordinate is the centred offset (screen - size) / 2 *)
(* whenever that offset is not negative.                                   *)
(***************************************************************************)
\* Twice the number h stands for.
Twice(h) == 2 * h[1] + h[2]

\* Coordinate h is the clamped centred offset of a size on a screen extent.
CentredOrZero(h, extent, size) ==
  /\ Twice(h) >= 0
  /\ extent - size >= 0 => Twice(h) = extent - size

C38_PositionClampedAndCentred ==
  position # NullTuple =>
    /\ CentredOrZero(position.left, screen.width, requested.width)
    /\ CentredOrZero(position.top, screen.height, requested.height)

\* A popup wider than the screen and lower than it by an odd amount: left is
\* clamped and top is a half-integer offset.
C38_Witness ==
  /\ position # NullTuple
  /\ requested.width > screen.width
  /\ screen.height - requested.height = 3
  /\ position.left = << 0, 0 >>
  /\ position.top = << 1, 1 >>

====
